---- MODULE Spec2Model ----
(***************************************************************************)
(* Thermal Memento (src/pycamera_amg88xx/code.py): the palette build loop  *)
(* and the frame loop that normalizes an 8x8 AMG8833 reading, interpolates *)
(* it to 15x15, maps it to RGB565_SWAPPED colours and writes it at stride  *)
(* 4 over the camera viewfinder frame in a 240x240 bitmap.                 *)
(*                                                                         *)
(* Floating point values are IEEE 754 binary64 floats, every operation     *)
(* rounded to nearest as the interpreter rounds it: each channel of this   *)
(* palette is an integer number of 1/256 in exact arithmetic, so whether   *)
(* int(x * 256) yields that level or the one below is decided by the       *)
(* rounding.  Arrays are 0-based functions, like the Python objects they   *)
(* model.                                                                  *)
(***************************************************************************)
EXTENDS Integers, Sequences, FiniteSets

VARIABLES
    pc,                        \* next statement group of the script
    color,                     \* palette loop variable (next index to build)
    hue, saturation, value,    \* HSV of the entry built last
    rgb,                       \* packed 24-bit RGB of the entry built last
    thermal_color_lookup,      \* list of RGB565_SWAPPED colours
    sensor_pixels,             \* the reading of this iteration
    thermal_sensor_data,       \* the reading scaled by its own min/max
    interpolation_grid,        \* pre-allocated 15x15 float array
    thermal_indices,           \* 15x15 uint8 palette indices
    thermal_overlay,           \* 15x15 uint16 colours
    thermal_overlay_repeated,  \* pre-allocated 60x60 uint16 array
    camera,                    \* the viewfinder frame captured this iteration
    output_bitmap,             \* pre-allocated 240x240 bitmap, [row][column]
    screen,                    \* the pixels pycam.blit sent to the display last
    stamps                     \* performance timestamps taken this iteration

vars == <<pc, color, hue, saturation, value, rgb,
          thermal_color_lookup, sensor_pixels, thermal_sensor_data,
          interpolation_grid, thermal_indices, thermal_overlay,
          thermal_overlay_repeated, camera, output_bitmap, screen, stamps>>

(***************************************************************************)
(* Program constants.                                                      *)
(***************************************************************************)
SENSOR_SIZE == 8
interpolation_size == (SENSOR_SIZE * 2) - 1
THERMAL_COLORS == 64
REPEAT == 4
repeated_size == interpolation_size * REPEAT
DISPLAY_SIZE == 240
BLIT_X == 0
BLIT_Y == 32
\* The viewfinder frame of continuous_capture(): 240 wide, and as high as
\* the display less the 32-row band the blit leaves above and below it.
CAMERA_WIDTH == DISPLAY_SIZE
CAMERA_HEIGHT == DISPLAY_SIZE - (2 * BLIT_Y)

(***************************************************************************)
(* Bounds of the model: how many distinct sensor readings and camera       *)
(* frames the environment can deliver.                                     *)
(***************************************************************************)
NumSensorFrames == 5
NumCameraFrames == 2

(***************************************************************************)
(* Natural numbers of any size, for the significands of floats: sequences  *)
(* of limbs below BASE, least significant first, no zero limb on top; the  *)
(* empty sequence is 0.                                                    *)
(***************************************************************************)
Abs(x) == IF x < 0 THEN -x ELSE x
Max(a, b) == IF a < b THEN b ELSE a
Min(a, b) == IF a < b THEN a ELSE b
Pow2(k) == 2 ^ k

LIMB_BITS == 15
BASE == Pow2(LIMB_BITS)

Limb(a, i) == IF i <= Len(a) THEN a[i] ELSE 0
Zeros(n) == [i \in 1 .. n |-> 0]

RECURSIVE BigTrim(_)
BigTrim(a) ==
    IF a = <<>> THEN a
    ELSE IF a[Len(a)] = 0 THEN BigTrim(SubSeq(a, 1, Len(a) - 1))
    ELSE a

RECURSIVE BigFromInt(_)
BigFromInt(n) == IF n = 0 THEN <<>> ELSE <<n % BASE>> \o BigFromInt(n \div BASE)

RECURSIVE BigToInt(_)
BigToInt(a) == IF a = <<>> THEN 0 ELSE a[1] + (BASE * BigToInt(Tail(a)))

RECURSIVE AddFrom(_, _, _, _)
AddFrom(a, b, i, carry) ==
    IF i > Len(a) /\ i > Len(b)
    THEN (IF carry = 0 THEN <<>> ELSE <<carry>>)
    ELSE LET s == Limb(a, i) + Limb(b, i) + carry
         IN  <<s % BASE>> \o AddFrom(a, b, i + 1, s \div BASE)

BigAdd(a, b) == AddFrom(a, b, 1, 0)

RECURSIVE SubFrom(_, _, _, _)
SubFrom(a, b, i, borrow) ==
    IF i > Len(a) THEN <<>>
    ELSE LET d == (a[i] - Limb(b, i)) - borrow
         IN  IF d < 0 THEN <<d + BASE>> \o SubFrom(a, b, i + 1, 1)
             ELSE <<d>> \o SubFrom(a, b, i + 1, 0)

\* a - b, for a >= b
BigSub(a, b) == BigTrim(SubFrom(a, b, 1, 0))

RECURSIVE CmpFrom(_, _, _)
CmpFrom(a, b, i) ==
    IF i = 0 THEN 0
    ELSE IF a[i] < b[i] THEN -1
    ELSE IF a[i] > b[i] THEN 1
    ELSE CmpFrom(a, b, i - 1)

BigCmp(a, b) ==
    IF Len(a) < Len(b) THEN -1
    ELSE IF Len(a) > Len(b) THEN 1
    ELSE CmpFrom(a, b, Len(a))

RECURSIVE MulSmallFrom(_, _, _, _)
MulSmallFrom(a, k, i, carry) ==
    IF i > Len(a) THEN (IF carry = 0 THEN <<>> ELSE <<carry>>)
    ELSE LET p == (a[i] * k) + carry
         IN  <<p % BASE>> \o MulSmallFrom(a, k, i + 1, p \div BASE)

\* a * k, for k < BASE
BigMulSmall(a, k) == IF k = 0 THEN <<>> ELSE MulSmallFrom(a, k, 1, 0)

RECURSIVE MulFrom(_, _, _)
MulFrom(a, b, i) ==
    IF i > Len(b) THEN <<>>
    ELSE BigAdd(IF b[i] = 0 THEN <<>> ELSE Zeros(i - 1) \o BigMulSmall(a, b[i]),
                MulFrom(a, b, i + 1))

BigMul(a, b) == IF a = <<>> THEN <<>> ELSE MulFrom(a, b, 1)

Reversed(s) == [k \in 1 .. Len(s) |-> s[(Len(s) + 1) - k]]

\* Short division of limbs i .. 1 of a by d with the remainder rem of the
\* limbs above: the quotient limbs, most significant first, then the
\* remainder.
RECURSIVE DivSmallFrom(_, _, _, _)
DivSmallFrom(a, d, i, rem) ==
    IF i = 0 THEN <<rem>>
    ELSE LET cur == (rem * BASE) + a[i]
         IN  <<cur \div d>> \o DivSmallFrom(a, d, i - 1, cur % d)

\* <<a div d, a mod d>>, for 0 < d < BASE
BigDivSmall(a, d) ==
    LET r == DivSmallFrom(a, d, Len(a), 0)
    IN  <<BigTrim(Reversed(SubSeq(r, 1, Len(a)))), BigFromInt(r[Len(a) + 1])>>

RECURSIVE SmallBitLen(_)
SmallBitLen(n) == IF n = 0 THEN 0 ELSE 1 + SmallBitLen(n \div 2)

BigBitLen(a) ==
    IF a = <<>> THEN 0 ELSE ((Len(a) - 1) * LIMB_BITS) + SmallBitLen(a[Len(a)])

\* bit i of a, bit 0 the least significant
BigBit(a, i) == (Limb(a, (i \div LIMB_BITS) + 1) \div Pow2(i % LIMB_BITS)) % 2
BigIsOdd(a) == Limb(a, 1) % 2 = 1

\* whether one of the k lowest bits of a is 1
BigLowBits(a, k) ==
    \/ \E i \in 1 .. k \div LIMB_BITS : Limb(a, i) # 0
    \/ Limb(a, (k \div LIMB_BITS) + 1) % Pow2(k % LIMB_BITS) # 0

BigShiftLeft(a, k) ==
    IF a = <<>> \/ k = 0 THEN a
    ELSE IF k % LIMB_BITS = 0 THEN Zeros(k \div LIMB_BITS) \o a
    ELSE Zeros(k \div LIMB_BITS) \o BigMulSmall(a, Pow2(k % LIMB_BITS))

\* a div 2^k
BigShiftRight(a, k) ==
    IF k \div LIMB_BITS >= Len(a) THEN <<>>
    ELSE BigDivSmall(SubSeq(a, (k \div LIMB_BITS) + 1, Len(a)), Pow2(k % LIMB_BITS))[1]

\* The largest q with q * d <= r, counting down from an estimate.
RECURSIVE DigitFrom(_, _, _)
DigitFrom(r, d, q) ==
    IF BigCmp(BigMulSmall(d, q), r) <= 0 THEN q ELSE DigitFrom(r, d, q - 1)

\* The quotient limb estimated from the top limbs of cur and of d.
Estimate(cur, d) ==
    Min(BASE - 1, ((Limb(cur, Len(d) + 1) * BASE) + Limb(cur, Len(d))) \div d[Len(d)])

\* Long division of limbs i .. 1 of n by d, whose top limb is at least
\* BASE / 2, with the remainder r of the limbs above: the quotient limbs,
\* most significant first, then the remainder.
RECURSIVE LongDivFrom(_, _, _, _)
RECURSIVE LongDivStep(_, _, _, _)
RECURSIVE LongDivDigit(_, _, _, _, _)
LongDivFrom(n, d, i, r) ==
    IF i = 0 THEN <<r>> ELSE LongDivStep(n, d, i, BigTrim(<<n[i]>> \o r))

LongDivStep(n, d, i, cur) ==
    LongDivDigit(n, d, i, cur, DigitFrom(cur, d, Estimate(cur, d)))

LongDivDigit(n, d, i, cur, q) ==
    <<q>> \o LongDivFrom(n, d, i - 1, BigSub(cur, BigMulSmall(d, q)))

\* Quotient and remainder out of the limbs LongDivFrom yields for a
\* dividend of len limbs, both operands scaled by 2^s.
QuotRem(qr, len, s) ==
    <<BigTrim(Reversed(SubSeq(qr, 1, len))), BigShiftRight(qr[len + 1], s)>>

LongDivScaled(n, d, s) == QuotRem(LongDivFrom(n, d, Len(n), <<>>), Len(n), s)

\* <<n div d, n mod d>>, for d > 0
BigDivMod(n, d) ==
    IF Len(d) = 1 THEN BigDivSmall(n, d[1])
    ELSE LongDivScaled(BigShiftLeft(n, LIMB_BITS - SmallBitLen(d[Len(d)])),
                       BigShiftLeft(d, LIMB_BITS - SmallBitLen(d[Len(d)])),
                       LIMB_BITS - SmallBitLen(d[Len(d)]))

RECURSIVE SmallTrailingZeros(_)
SmallTrailingZeros(n) == IF n % 2 = 1 THEN 0 ELSE 1 + SmallTrailingZeros(n \div 2)

RECURSIVE ZeroLimbsFrom(_, _)
ZeroLimbsFrom(a, i) == IF a[i] # 0 THEN 0 ELSE 1 + ZeroLimbsFrom(a, i + 1)

\* number of trailing zero bits of a > 0
BigTrailingZeros(a) ==
    LET z == ZeroLimbsFrom(a, 1)
    IN  (z * LIMB_BITS) + SmallTrailingZeros(a[z + 1])

(***************************************************************************)
(* Float arithmetic: IEEE 754 binary64, round to nearest, ties to even,    *)
(* the float of CPython and of numpy's default dtype.  A float is a record *)
(* of its kind ("nan", "inf", "zero" or "num"), its sign (1 or -1) and,    *)
(* for kind "num", the odd significand man and the exponent exp of the     *)
(* value sign * man * 2^exp; the other kinds have man = <<>> and exp = 0,  *)
(* and NaN has sign 1, so that equal floats are equal records (0.0 and     *)
(* -0.0 are two records that compare equal under FEq).                     *)
(***************************************************************************)
MANT_BITS == 53
MAX_EXP == 1023
MIN_EXP == -1074

NaN == [kind |-> "nan", sign |-> 1, man |-> <<>>, exp |-> 0]
Inf(s) == [kind |-> "inf", sign |-> s, man |-> <<>>, exp |-> 0]
SignedZero(s) == [kind |-> "zero", sign |-> s, man |-> <<>>, exp |-> 0]

IsNaN(a) == a.kind = "nan"
IsInf(a) == a.kind = "inf"
IsZero(a) == a.kind = "zero"
IsFinite(a) == a.kind = "zero" \/ a.kind = "num"

\* The float sign * m * 2^e, m with tz trailing zero bits.
Normal(s, m, e, tz) ==
    [kind |-> "num", sign |-> s,
     man |-> IF tz = 0 THEN m ELSE BigShiftRight(m, tz), exp |-> e + tz]

\* The float sign * m * 2^e, for a value that needs no rounding.
Exact(s, m, e) ==
    IF m = <<>> THEN SignedZero(s) ELSE Normal(s, m, e, BigTrailingZeros(m))

\* Exact, or infinity for a value beyond the largest float.
Finite(s, m, e) ==
    IF (BigBitLen(m) - 1) + e > MAX_EXP THEN Inf(s) ELSE Exact(s, m, e)

\* The exponent of the last significand bit a float near m * 2^e has.
Quantum(m, e) == Max(MIN_EXP, (BigBitLen(m) + e) - MANT_BITS)

\* kept = m div 2^drop, rounded to nearest, ties to even.
NearestOf(kept, m, drop, sticky) ==
    IF /\ BigBit(m, drop - 1) = 1
       /\ (sticky \/ BigIsOdd(kept) \/ BigLowBits(m, drop - 1))
    THEN BigAdd(kept, <<1>>)
    ELSE kept

Nearest(m, drop, sticky) == NearestOf(BigShiftRight(m, drop), m, drop, sticky)

RoundAt(s, m, e, sticky, quantum) ==
    Finite(s, IF e >= quantum THEN m ELSE Nearest(m, quantum - e, sticky), Max(e, quantum))

\* The float nearest sign * (m + f) * 2^e, where 0 <= f < 1 and f > 0 iff
\* sticky; with sticky set, m has more than MANT_BITS + 1 bits.
Round(s, m, e, sticky) ==
    IF m = <<>> THEN SignedZero(s) ELSE RoundAt(s, m, e, sticky, Quantum(m, e))

\* A value before rounding, and the float it rounds to.
Unrounded(s, m, e, sticky) == [sign |-> s, man |-> m, exp |-> e, sticky |-> sticky]
Rounded(u) == Round(u.sign, u.man, u.exp, u.sticky)

\* float(i) of an int
ToFloat(i) == Exact(IF i < 0 THEN -1 ELSE 1, BigFromInt(Abs(i)), 0)
Zero == SignedZero(1)
One == [kind |-> "num", sign |-> 1, man |-> <<1>>, exp |-> 0]

FNeg(a) == IF IsNaN(a) THEN a ELSE [a EXCEPT !.sign = -a.sign]
FAbs(a) == [a EXCEPT !.sign = 1]

\* ma * 2^e - mb * 2^e with the signs sa and sb, c the order of ma and mb;
\* x - x is +0.
Difference(sa, ma, sb, mb, e, c) ==
    IF c = 0 THEN Unrounded(1, <<>>, e, FALSE)
    ELSE IF c > 0 THEN Unrounded(sa, BigSub(ma, mb), e, FALSE)
    ELSE Unrounded(sb, BigSub(mb, ma), e, FALSE)

SignedSum(sa, ma, sb, mb, e) ==
    IF sa = sb THEN Unrounded(sa, BigAdd(ma, mb), e, FALSE)
    ELSE Difference(sa, ma, sb, mb, e, BigCmp(ma, mb))

\* a + b for two floats of kind "num" whose exponents are close enough to
\* add the aligned significands.
AlignedSum(a, b) ==
    SignedSum(a.sign, BigShiftLeft(a.man, a.exp - Min(a.exp, b.exp)),
              b.sign, BigShiftLeft(b.man, b.exp - Min(a.exp, b.exp)),
              Min(a.exp, b.exp))

\* a + b where b is of smaller magnitude than the last of GUARD_BITS bits
\* of a: b only decides on which side of that bit the sum lies.
GUARD_BITS == MANT_BITS + 3
TopExp(a) == BigBitLen(a.man) + a.exp

FarSum(a, b) ==
    LET e == TopExp(a) - GUARD_BITS
        ma == BigShiftLeft(a.man, a.exp - e)
    IN  Unrounded(a.sign, IF a.sign = b.sign THEN ma ELSE BigSub(ma, <<1>>), e, TRUE)

\* Anything with NaN is NaN; inf - inf is NaN.
FAdd(a, b) ==
    IF IsNaN(a) \/ IsNaN(b) THEN NaN
    ELSE IF IsInf(a) /\ IsInf(b) THEN (IF a.sign = b.sign THEN a ELSE NaN)
    ELSE IF IsInf(a) THEN a
    ELSE IF IsInf(b) THEN b
    ELSE IF IsZero(a) /\ IsZero(b) THEN (IF a.sign = b.sign THEN a ELSE Zero)
    ELSE IF IsZero(a) THEN b
    ELSE IF IsZero(b) THEN a
    ELSE Rounded(IF TopExp(a) - TopExp(b) >= GUARD_BITS THEN FarSum(a, b)
                 ELSE IF TopExp(b) - TopExp(a) >= GUARD_BITS THEN FarSum(b, a)
                 ELSE AlignedSum(a, b))

FSub(a, b) == FAdd(a, FNeg(b))

FMul(a, b) ==
    IF IsNaN(a) \/ IsNaN(b) THEN NaN
    ELSE IF (IsInf(a) /\ IsZero(b)) \/ (IsZero(a) /\ IsInf(b)) THEN NaN
    ELSE IF IsInf(a) \/ IsInf(b) THEN Inf(a.sign * b.sign)
    ELSE IF IsZero(a) \/ IsZero(b) THEN SignedZero(a.sign * b.sign)
    ELSE Round(a.sign * b.sign, BigMul(a.man, b.man), a.exp + b.exp, FALSE)

QuotientOf(s, qr, e) == Unrounded(s, qr[1], e, qr[2] # <<>>)

\* a / b with the significand of a scaled by 2^shift, so that the integer
\* quotient has more than MANT_BITS + 1 bits.
Quotient(a, b, shift) ==
    QuotientOf(a.sign * b.sign, BigDivMod(BigShiftLeft(a.man, shift), b.man),
               (a.exp - b.exp) - shift)

\* Array division does not raise on a zero divisor: 0/0 is NaN, x/0 is
\* +-inf.  (The scalar divisions of the palette loop have divisors that are
\* never zero.)  A division by a power of two only changes the exponent.
FDiv(a, b) ==
    IF IsNaN(a) \/ IsNaN(b) THEN NaN
    ELSE IF IsInf(a) THEN (IF IsInf(b) THEN NaN ELSE Inf(a.sign * b.sign))
    ELSE IF IsInf(b) THEN SignedZero(a.sign * b.sign)
    ELSE IF IsZero(b) THEN (IF IsZero(a) THEN NaN ELSE Inf(a.sign * b.sign))
    ELSE IF IsZero(a) THEN SignedZero(a.sign * b.sign)
    ELSE Rounded(IF b.man = <<1>>
                 THEN Unrounded(a.sign * b.sign, a.man, a.exp - b.exp, FALSE)
                 ELSE Quotient(a, b, Max(0, ((MANT_BITS + 2) + BigBitLen(b.man))
                                            - BigBitLen(a.man))))

\* -1, 0, 1 as a < b, a = b, a > b, for floats that are not NaN
Side(a) == IF IsZero(a) THEN 0 ELSE a.sign

MagnitudeCmp(a, b) ==
    IF IsInf(a) THEN (IF IsInf(b) THEN 0 ELSE 1)
    ELSE IF IsInf(b) THEN -1
    ELSE LET ta == BigBitLen(a.man) + a.exp
             tb == BigBitLen(b.man) + b.exp
             e == IF a.exp < b.exp THEN a.exp ELSE b.exp
         IN  IF ta < tb THEN -1
             ELSE IF ta > tb THEN 1
             ELSE BigCmp(BigShiftLeft(a.man, a.exp - e), BigShiftLeft(b.man, b.exp - e))

FCmp(a, b) ==
    IF Side(a) # Side(b) THEN (IF Side(a) < Side(b) THEN -1 ELSE 1)
    ELSE IF Side(a) = 0 THEN 0
    ELSE Side(a) * MagnitudeCmp(a, b)

\* Every comparison with NaN is false.
FLess(a, b) == ~IsNaN(a) /\ ~IsNaN(b) /\ FCmp(a, b) < 0
FLeq(a, b) == ~IsNaN(a) /\ ~IsNaN(b) /\ FCmp(a, b) <= 0
FEq(a, b) == ~IsNaN(a) /\ ~IsNaN(b) /\ FCmp(a, b) = 0

\* int() of a finite float: the integer part, toward zero.
Trunc(a) ==
    IF IsZero(a) THEN 0
    ELSE IF a.exp >= 0 THEN a.sign * BigToInt(BigShiftLeft(a.man, a.exp))
    ELSE a.sign * BigToInt(BigShiftRight(a.man, -a.exp))

\* math.floor() of a finite float, an int.
Floor(a) ==
    IF IsZero(a) \/ a.exp >= 0 \/ a.sign = 1 THEN Trunc(a) ELSE Trunc(a) - 1

\* Line 53: the literal 0.1 is the float nearest one tenth.
THERMAL_FADE == FDiv(ToFloat(1), ToFloat(10))

ShiftRight(x, k) == x \div Pow2(k)
ShiftLeft(x, k) == x * Pow2(k)

RECURSIVE BitAnd(_, _)
BitAnd(a, b) ==
    IF a = 0 \/ b = 0 THEN 0
    ELSE ((a % 2) * (b % 2)) + (2 * BitAnd(a \div 2, b \div 2))

RECURSIVE BitOr(_, _)
BitOr(a, b) ==
    IF a = 0 THEN b
    ELSE IF b = 0 THEN a
    ELSE (IF (a % 2) + (b % 2) > 0 THEN 1 ELSE 0) + (2 * BitOr(a \div 2, b \div 2))

ClampInt(x, lo, hi) == IF x < lo THEN lo ELSE IF x > hi THEN hi ELSE x

(***************************************************************************)
(* Palette: HSV curve of one entry (code.py lines 68-89).                  *)
(***************************************************************************)
\* Seeded fault: the hue span divided by hue_range instead of hue_range*2.
FractionHSVWideHue(color_fraction) ==
    IF FLess(color_fraction, THERMAL_FADE)
    THEN [hue |-> FDiv(ToFloat(-1), ToFloat(3)),
          saturation |-> One,
          value |-> FDiv(color_fraction, THERMAL_FADE)]
    ELSE IF FLess(FSub(One, THERMAL_FADE), color_fraction)
    THEN LET fade_fraction == FSub(color_fraction, FSub(One, THERMAL_FADE))
         IN  [hue |-> FDiv(One, ToFloat(6)),
              saturation |-> FDiv(FSub(THERMAL_FADE, fade_fraction), THERMAL_FADE),
              value |-> One]
    ELSE LET hue_range == FSub(One, FMul(THERMAL_FADE, ToFloat(2)))
         IN  [hue |-> FSub(FDiv(FSub(color_fraction, THERMAL_FADE), hue_range),
                           FDiv(One, ToFloat(3))),
              saturation |-> One,
              value |-> One]

PaletteHSVWideHue(c) == FractionHSVWideHue(FDiv(ToFloat(c), ToFloat(THERMAL_COLORS)))

\* Lines 69-89: hue, saturation and value of the entry at color_fraction.
FractionHSV(color_fraction) ==
    IF FLess(color_fraction, THERMAL_FADE)
    THEN [hue |-> FDiv(ToFloat(-1), ToFloat(3)),
          saturation |-> One,
          value |-> FDiv(color_fraction, THERMAL_FADE)]
    ELSE IF FLess(FSub(One, THERMAL_FADE), color_fraction)
    THEN LET fade_fraction == FSub(color_fraction, FSub(One, THERMAL_FADE))
         IN  [hue |-> FDiv(One, ToFloat(6)),
              saturation |-> FDiv(FSub(THERMAL_FADE, fade_fraction), THERMAL_FADE),
              value |-> One]
    ELSE LET hue_range == FSub(One, FMul(THERMAL_FADE, ToFloat(2)))
         IN  [hue |-> FSub(FDiv(FSub(color_fraction, THERMAL_FADE),
                                FMul(hue_range, ToFloat(2))),
                           FDiv(One, ToFloat(3))),
              saturation |-> One,
              value |-> One]

\* Line 68: color_fraction = color/THERMAL_COLORS
PaletteHSV(c) == FractionHSV(FDiv(ToFloat(c), ToFloat(THERMAL_COLORS)))

(***************************************************************************)
(* fancy.CHSV(h, s, v).pack(), as the call on line 92 uses it: saturation  *)
(* and value clamped to [0, 1], hue wrapped by sextant, each channel       *)
(* denormalized with int(x * 256) clamped to 0..255.                       *)
(***************************************************************************)
\* min(a, b) and max(a, b) of two floats: the first argument, unless the
\* second compares strictly below (above) it.
FMin(a, b) == IF FLess(b, a) THEN b ELSE a
FMax(a, b) == IF FLess(a, b) THEN b ELSE a

\* clamp(val, 0.0, 1.0) = max(0.0, min(val, 1.0)).
ClampNorm(a) == FMax(Zero, FMin(a, One))
Denormalize(a) == ClampInt(Trunc(FMul(a, ToFloat(256))), 0, 255)

\* The three channels by sextant, frac the position in the sextant.
SextantRGB(sxt, frac, inv) ==
    CASE sxt = 0 -> <<One, frac, Zero>>
      [] sxt = 1 -> <<inv, One, Zero>>
      [] sxt = 2 -> <<Zero, One, frac>>
      [] sxt = 3 -> <<Zero, inv, One>>
      [] sxt = 4 -> <<frac, Zero, One>>
      [] OTHER -> <<One, Zero, inv>>

\* Every channel x becomes ((x * sat) + invsat) * val, denormalized.
Channels(channels, sat, invsat, val) ==
    [i \in 1 .. 3 |->
        Denormalize(ClampNorm(FMul(FAdd(FMul(channels[i], sat), invsat), val)))]

Pack(levels) == BitOr(BitOr(ShiftLeft(levels[1], 16), ShiftLeft(levels[2], 8)), levels[3])

SaturationValue(channels, sat, val) == Pack(Channels(channels, sat, FSub(One, sat), val))

Sextant(fl, frac, sat, val) ==
    SaturationValue(SextantRGB(fl % 6, frac, FSub(One, frac)), sat, val)

HueSextant(h6, fl, sat, val) == Sextant(fl, FSub(h6, ToFloat(fl)), sat, val)

ScaledHue(h6, sat, val) == HueSextant(h6, Floor(h6), sat, val)

CHSVPack(h, s, v) == ScaledHue(FMul(h, ToFloat(6)), ClampNorm(s), ClampNorm(v))

(***************************************************************************)
(* Packing of a 24-bit RGB value into the 16-bit lookup value (lines       *)
(* 95-100).                                                                *)
(***************************************************************************)
PackSwapped(c) ==
    LET red == ShiftRight(BitAnd(c, 16711680), 19)
        green_h3 == ShiftRight(BitAnd(c, 65280), 13)
        green_l3 == ShiftRight(BitAnd(c, 14336), 11)
        blue == ShiftRight(BitAnd(c, 255), 3)
    IN  ShiftLeft(red, 3) + green_h3 + ShiftLeft(green_l3, 13) + ShiftLeft(blue, 8)

(***************************************************************************)
(* Arrays and the slice assignments of ulab.numpy.  A slice start:stop:step *)
(* is the record of its start, its step and the number of indices it has.  *)
(***************************************************************************)
Slice(start, stop, step) ==
    [start |-> start, step |-> step,
     len |-> IF stop <= start THEN 0 ELSE ((stop - start) + (step - 1)) \div step]

InSlice(i, s) ==
    /\ i >= s.start
    /\ (i - s.start) % s.step = 0
    /\ (i - s.start) \div s.step < s.len

PosIn(i, s) == (i - s.start) \div s.step

Full(n, m, v) == [r \in 0 .. n - 1 |-> [c \in 0 .. m - 1 |-> v]]

\* a[rs, cs]
GetSlice(a, rs, cs) ==
    [i \in 0 .. rs.len - 1 |->
        [j \in 0 .. cs.len - 1 |-> a[rs.start + (i * rs.step)][cs.start + (j * cs.step)]]]

\* a[rs, cs] = src
SetSlice(a, rs, cs, src) ==
    [r \in DOMAIN a |->
        IF InSlice(r, rs)
        THEN [c \in DOMAIN a[r] |->
                 IF InSlice(c, cs) THEN src[PosIn(r, rs)][PosIn(c, cs)] ELSE a[r][c]]
        ELSE a[r]]

GridAdd(a, b) == [i \in DOMAIN a |-> [j \in DOMAIN a[i] |-> FAdd(a[i][j], b[i][j])]]
GridSubScalar(a, x) == [i \in DOMAIN a |-> [j \in DOMAIN a[i] |-> FSub(a[i][j], x)]]
GridDivScalar(a, x) == [i \in DOMAIN a |-> [j \in DOMAIN a[i] |-> FDiv(a[i][j], x)]]

\* The largest and the smallest of v[0 .. k], scanned from v[0].
RECURSIVE MaxUpTo(_, _)
MaxUpTo(v, k) ==
    IF k = 0 THEN v[0]
    ELSE LET best == MaxUpTo(v, k - 1)
         IN  IF FLess(best, v[k]) THEN v[k] ELSE best

RECURSIVE MinUpTo(_, _)
MinUpTo(v, k) ==
    IF k = 0 THEN v[0]
    ELSE LET best == MinUpTo(v, k - 1)
         IN  IF FLess(v[k], best) THEN v[k] ELSE best

Last(v) == Cardinality(DOMAIN v) - 1

\* np.max and np.min of a 2-D array: over the rows, then over the row results.
GridMax(a) == MaxUpTo([i \in DOMAIN a |-> MaxUpTo(a[i], Last(a[i]))], Last(a))
GridMin(a) == MinUpTo([i \in DOMAIN a |-> MinUpTo(a[i], Last(a[i]))], Last(a))

(***************************************************************************)
(* The environment: what amg.pixels and pycam.continuous_capture() return. *)
(* Readings are multiples of 0.25 degrees, the resolution of the AMG8833.  *)
(***************************************************************************)
Spot(i, j, r, c, h) == IF i = r /\ j = c THEN h ELSE 0

\* Reading k, cell (i, j), in quarter degrees.  Reading 4 spans 1.5 degrees:
\* its scaled cells are sixths, and interpolated cell (11, 3), a quarter in
\* exact arithmetic, is the float below a quarter.
QuarterDegrees(k, i, j) ==
    CASE k = 1 -> 100
      [] k = 2 -> 80 + (2 * (i + j)) + Spot(i, j, 7, 7, 12)
      [] k = 3 -> 80 + (2 * (i + j)) + Spot(i, j, 7, 7, 12) + Spot(i, j, 2, 2, 30)
      [] k = 4 -> 120 + Spot(i, j, 3, 4, 6) + Spot(i, j, 6, 1, 1)
                      + Spot(i, j, 5, 2, 1) + Spot(i, j, 6, 2, 4)
      [] k = 5 -> 80 + (IF i * j > 40 THEN 40 ELSE i * j)
      [] OTHER -> 60 + (((k * i) + (3 * j)) % 9)

SensorFrame(k) ==
    [i \in 0 .. SENSOR_SIZE - 1 |->
        [j \in 0 .. SENSOR_SIZE - 1 |-> FDiv(ToFloat(QuarterDegrees(k, i, j)), ToFloat(4))]]

\* Pixel (x, y) of camera frame k, an RGB565_SWAPPED grey level.
CameraPixel(k, x, y) == ((k * 4099) + (y * 251) + (x * 7)) % 65536

(***************************************************************************)
(* Line 120: scale the reading by its own minimum and maximum.             *)
(***************************************************************************)
\* Seeded fault: the reading divided by its maximum, the minimum not subtracted.
NormalizeByMax(data) == GridDivScalar(data, GridMax(data))

Normalize(data) ==
    LET thermal_sensor_max == GridMax(data)
        thermal_sensor_min == GridMin(data)
    IN  GridDivScalar(GridSubScalar(data, thermal_sensor_min),
                      FSub(thermal_sensor_max, thermal_sensor_min))

(***************************************************************************)
(* Lines 126-135: 2x interpolation into the pre-allocated grid.            *)
(***************************************************************************)
\* Seeded fault: line 130 left out, so that line 131 adds to what the odd rows held.
VerticalPassAccumulate(grid, data) ==
    LET n == interpolation_size
        odd == Slice(1, n, 2)
        even == Slice(0, n, 2)
        g1 == SetSlice(grid, even, even, data)
        g3 == SetSlice(g1, odd, even,
                       GridAdd(GetSlice(g1, odd, even),
                               GetSlice(data, Slice(1, SENSOR_SIZE, 1), Slice(0, SENSOR_SIZE, 1))))
    IN  SetSlice(g3, odd, even, GridDivScalar(GetSlice(g3, odd, even), ToFloat(2)))

VerticalPass(grid, data) ==
    LET n == interpolation_size
        odd == Slice(1, n, 2)
        even == Slice(0, n, 2)
        g1 == SetSlice(grid, even, even, data)
        g2 == SetSlice(g1, odd, even,
                       GetSlice(data, Slice(0, SENSOR_SIZE - 1, 1), Slice(0, SENSOR_SIZE, 1)))
        g3 == SetSlice(g2, odd, even,
                       GridAdd(GetSlice(g2, odd, even),
                               GetSlice(data, Slice(1, SENSOR_SIZE, 1), Slice(0, SENSOR_SIZE, 1))))
    IN  SetSlice(g3, odd, even, GridDivScalar(GetSlice(g3, odd, even), ToFloat(2)))

HorizontalPass(grid) ==
    LET n == interpolation_size
        all == Slice(0, n, 1)
        odd == Slice(1, n, 2)
        g1 == SetSlice(grid, all, odd, GetSlice(grid, all, Slice(0, n - 1, 2)))
        g2 == SetSlice(g1, all, odd,
                       GridAdd(GetSlice(g1, all, odd), GetSlice(g1, all, Slice(2, n, 2))))
    IN  SetSlice(g2, all, odd, GridDivScalar(GetSlice(g2, all, odd), ToFloat(2)))

\* Seeded fault: the horizontal sweep before the vertical one.
InterpolateIntoHorizontalFirst(grid, data) == VerticalPass(HorizontalPass(grid), data)

InterpolateInto(grid, data) == HorizontalPass(VerticalPass(grid, data))

(***************************************************************************)
(* Line 140: np.clip(v * THERMAL_COLORS, 0, THERMAL_COLORS-1) cast to      *)
(* uint8.  The source does not say what either step makes of NaN; a build  *)
(* is one outcome of each.                                                 *)
(***************************************************************************)
\* np.clip on NaN.  Every comparison with NaN is false: a clip written as
\* two guarded assignments keeps NaN, one written as min and max delivers
\* the bound its comparisons fall through to.
ClipNaNOutcomes == {"keep", "lower", "upper"}

\* The conversion of NaN to uint8.  It is undefined in C; the conversion
\* instructions deliver zero or a saturated word, of which the array keeps
\* the low byte.
CastNaNOutcomes == {0, 255}

Builds == [clip : ClipNaNOutcomes, cast : CastNaNOutcomes]

Clip(a, lo, hi, on_nan) ==
    IF IsNaN(a)
    THEN CASE on_nan = "lower" -> lo
           [] on_nan = "upper" -> hi
           [] OTHER -> a
    ELSE IF FLess(a, lo) THEN lo ELSE IF FLess(hi, a) THEN hi ELSE a

\* dtype=np.uint8: the value truncated toward zero, modulo 2^8.
CastUInt8(a, on_nan) == IF IsNaN(a) THEN on_nan ELSE Trunc(a) % 256

ColorIndex(v, build) ==
    CastUInt8(Clip(FMul(v, ToFloat(THERMAL_COLORS)), Zero, ToFloat(THERMAL_COLORS - 1),
                   build.clip),
              build.cast)

MapIndices(grid, build) ==
    [r \in DOMAIN grid |-> [c \in DOMAIN grid[r] |-> ColorIndex(grid[r][c], build)]]

\* Lines 161-165: thermal_color_lookup[i] of an index past the end of the
\* list raises IndexError.
InRange(indices, lookup) ==
    \A r \in DOMAIN indices : \A c \in DOMAIN indices[r] : indices[r][c] < Len(lookup)

\* Lines 161-165: look every index up in the list, as uint16.
MapColors(indices, lookup) ==
    [r \in DOMAIN indices |->
        [c \in DOMAIN indices[r] |-> lookup[indices[r][c] + 1] % 65536]]

(***************************************************************************)
(* Line 170: bitmaptools.blit(output_bitmap, capture, 0, 32).              *)
(***************************************************************************)
Blit(bitmap, k) ==
    [y \in DOMAIN bitmap |->
        IF y >= BLIT_Y /\ y < BLIT_Y + CAMERA_HEIGHT
        THEN [x \in DOMAIN bitmap[y] |->
                 IF x >= BLIT_X /\ x < BLIT_X + CAMERA_WIDTH
                 THEN CameraPixel(k, x - BLIT_X, y - BLIT_Y)
                 ELSE bitmap[y][x]]
        ELSE bitmap[y]]

(***************************************************************************)
(* Lines 180-184: expand the overlay by 4 along both axes.                 *)
(***************************************************************************)
\* Seeded fault: line 183 left out, columns 2::4 are never filled.
ExpandIntoNoColumnFill(rep, overlay) ==
    LET n == repeated_size
        all == Slice(0, n, 1)
        by4 == Slice(0, n, 4)
        r1 == SetSlice(rep, by4, by4, overlay)
        r2 == SetSlice(r1, Slice(2, n, 4), by4, overlay)
        r3 == SetSlice(r2, Slice(1, n, 2), by4, GetSlice(r2, Slice(0, n, 2), by4))
    IN  SetSlice(r3, all, Slice(1, n, 2), GetSlice(r3, all, Slice(0, n, 2)))

ExpandInto(rep, overlay) ==
    LET n == repeated_size
        all == Slice(0, n, 1)
        by4 == Slice(0, n, 4)
        r1 == SetSlice(rep, by4, by4, overlay)
        r2 == SetSlice(r1, Slice(2, n, 4), by4, overlay)
        r3 == SetSlice(r2, Slice(1, n, 2), by4, GetSlice(r2, Slice(0, n, 2), by4))
        r4 == SetSlice(r3, all, Slice(2, n, 4), GetSlice(r3, all, by4))
    IN  SetSlice(r4, all, Slice(1, n, 2), GetSlice(r4, all, Slice(0, n, 2)))

\* Line 190: output_bitmap_np[::4, ::4] = thermal_overlay_repeated
StrideSlice == Slice(0, DISPLAY_SIZE, REPEAT)

\* Seeded fault: the stride grid starts at pixel 1 instead of pixel 0.
BulkTransferFromOne(bitmap, rep) ==
    SetSlice(bitmap, Slice(1, DISPLAY_SIZE, REPEAT), Slice(1, DISPLAY_SIZE, REPEAT), rep)

BulkTransfer(bitmap, rep) == SetSlice(bitmap, StrideSlice, StrideSlice, rep)

(***************************************************************************)
(* The script.                                                             *)
(***************************************************************************)
\* Seeded fault: the overlay written before the camera frame is copied.
NextPcOverlayFirst(p) ==
    CASE p = "read" -> "scaled"
      [] p = "scaled" -> "interpolate"
      [] p = "interpolate" -> "mapped"
      [] p = "mapped" -> "grid"
      [] p = "grid" -> "blit"
      [] p = "blit" -> "refresh"
      [] OTHER -> "read"

\* The order of the statement groups of the frame loop, by the timestamp
\* each one ends with.
NextPc(p) ==
    CASE p = "read" -> "scaled"
      [] p = "scaled" -> "interpolate"
      [] p = "interpolate" -> "mapped"
      [] p = "mapped" -> "blit"
      [] p = "blit" -> "grid"
      [] p = "grid" -> "refresh"
      [] OTHER -> "read"

Unset == <<>>

Init ==
    /\ pc = "palette"
    /\ color = 0
    /\ hue = Unset
    /\ saturation = Unset
    /\ value = Unset
    /\ rgb = 0
    /\ thermal_color_lookup = <<>>
    /\ sensor_pixels = Unset
    /\ thermal_sensor_data = Unset
    /\ interpolation_grid = Full(interpolation_size, interpolation_size, Zero)
    /\ thermal_indices = Unset
    /\ thermal_overlay = Unset
    /\ thermal_overlay_repeated = Full(repeated_size, repeated_size, 0)
    /\ camera = 0
    /\ output_bitmap = Full(DISPLAY_SIZE, DISPLAY_SIZE, 0)
    /\ screen = Unset
    /\ stamps = <<>>

\* One iteration of the palette loop (lines 67-100).
BuildColor ==
    /\ pc = "palette"
    /\ color < THERMAL_COLORS
    /\ \E hsv \in {PaletteHSV(color)} :
          /\ hue' = hsv.hue
          /\ saturation' = hsv.saturation
          /\ value' = hsv.value
    /\ rgb' = CHSVPack(hue', saturation', value')
    /\ thermal_color_lookup' = Append(thermal_color_lookup, PackSwapped(rgb'))
    /\ color' = color + 1
    /\ UNCHANGED <<pc, sensor_pixels, thermal_sensor_data, interpolation_grid,
                   thermal_indices, thermal_overlay, thermal_overlay_repeated, camera,
                   output_bitmap, screen, stamps>>

\* Lines 102-107: the palette is complete, enter the frame loop.
Start ==
    /\ pc = "palette"
    /\ color = THERMAL_COLORS
    /\ pc' = "read"
    /\ UNCHANGED <<color, hue, saturation, value, rgb, thermal_color_lookup,
                   sensor_pixels, thermal_sensor_data, interpolation_grid,
                   thermal_indices, thermal_overlay, thermal_overlay_repeated, camera,
                   output_bitmap, screen, stamps>>

\* Lines 108-113: read the sensor.
ReadSensor ==
    /\ pc = "read"
    /\ \E k \in 1 .. NumSensorFrames : sensor_pixels' = SensorFrame(k)
    /\ stamps' = <<"start", "read">>
    /\ pc' = NextPc(pc)
    /\ UNCHANGED <<color, hue, saturation, value, rgb, thermal_color_lookup,
                   thermal_sensor_data, interpolation_grid, thermal_indices,
                   thermal_overlay, thermal_overlay_repeated, camera, output_bitmap, screen>>

\* Lines 115-122.
Scale ==
    /\ pc = "scaled"
    /\ thermal_sensor_data' = Normalize(sensor_pixels)
    /\ stamps' = Append(stamps, pc)
    /\ pc' = NextPc(pc)
    /\ UNCHANGED <<color, hue, saturation, value, rgb, thermal_color_lookup,
                   sensor_pixels, interpolation_grid, thermal_indices, thermal_overlay,
                   thermal_overlay_repeated, camera, output_bitmap, screen>>

\* Lines 124-137.
Interpolate ==
    /\ pc = "interpolate"
    /\ interpolation_grid' = InterpolateInto(interpolation_grid, thermal_sensor_data)
    /\ stamps' = Append(stamps, pc)
    /\ pc' = NextPc(pc)
    /\ UNCHANGED <<color, hue, saturation, value, rgb, thermal_color_lookup,
                   sensor_pixels, thermal_sensor_data, thermal_indices, thermal_overlay,
                   thermal_overlay_repeated, camera, output_bitmap, screen>>

\* Lines 139-167.  An index past the end of the list ends the script with
\* the IndexError of line 162, before thermal_overlay is assigned.
Map ==
    /\ pc = "mapped"
    /\ \E build \in Builds : thermal_indices' = MapIndices(interpolation_grid, build)
    /\ IF InRange(thermal_indices', thermal_color_lookup)
       THEN /\ thermal_overlay' = MapColors(thermal_indices', thermal_color_lookup)
            /\ stamps' = Append(stamps, pc)
            /\ pc' = NextPc(pc)
       ELSE /\ pc' = "failed"
            /\ UNCHANGED <<thermal_overlay, stamps>>
    /\ UNCHANGED <<color, hue, saturation, value, rgb, thermal_color_lookup,
                   sensor_pixels, thermal_sensor_data, interpolation_grid,
                   thermal_overlay_repeated, camera, output_bitmap, screen>>

\* Lines 169-172.
CameraBlit ==
    /\ pc = "blit"
    /\ \E k \in 1 .. NumCameraFrames :
          /\ camera' = k
          /\ output_bitmap' = Blit(output_bitmap, k)
    /\ stamps' = Append(stamps, pc)
    /\ pc' = NextPc(pc)
    /\ UNCHANGED <<color, hue, saturation, value, rgb, thermal_color_lookup,
                   sensor_pixels, thermal_sensor_data, interpolation_grid,
                   thermal_indices, thermal_overlay, thermal_overlay_repeated, screen>>

\* Lines 174-192.
OverlayGrid ==
    /\ pc = "grid"
    /\ thermal_overlay_repeated' = ExpandInto(thermal_overlay_repeated, thermal_overlay)
    /\ output_bitmap' = BulkTransfer(output_bitmap, thermal_overlay_repeated')
    /\ stamps' = Append(stamps, pc)
    /\ pc' = NextPc(pc)
    /\ UNCHANGED <<color, hue, saturation, value, rgb, thermal_color_lookup,
                   sensor_pixels, thermal_sensor_data, interpolation_grid,
                   thermal_indices, thermal_overlay, camera, screen>>

\* Lines 194-200: send output_bitmap to the screen and report the timers.
Refresh ==
    /\ pc = "refresh"
    /\ screen' = output_bitmap
    /\ stamps' = Append(stamps, pc)
    /\ pc' = NextPc(pc)
    /\ UNCHANGED <<color, hue, saturation, value, rgb, thermal_color_lookup,
                   sensor_pixels, thermal_sensor_data, interpolation_grid,
                   thermal_indices, thermal_overlay, thermal_overlay_repeated, camera,
                   output_bitmap>>

Next ==
    \/ BuildColor
    \/ Start
    \/ ReadSensor
    \/ Scale
    \/ Interpolate
    \/ Map
    \/ CameraBlit
    \/ OverlayGrid
    \/ Refresh

Spec == Init /\ [][Next]_vars

(***************************************************************************)
(* Properties.                                                             *)
(***************************************************************************)
Taken(name) == \E i \in 1 .. Len(stamps) : stamps[i] = name

StageOrder ==
    <<"start", "read", "scaled", "interpolate", "mapped", "blit", "grid", "refresh">>

Degenerate(frame) == GridMax(frame) = GridMin(frame)

AllCells(a, v) == \A i \in DOMAIN a : \A j \in DOMAIN a[i] : a[i][j] = v

Average(a, b) == FDiv(FAdd(a, b), ToFloat(2))

OnStride(y, x) == y % REPEAT = 0 /\ x % REPEAT = 0

Pixels == 0 .. DISPLAY_SIZE - 1

\* C1: adaptive normalization of a reading whose 64 cells are equal yields
\* an all-zero grid, and every cell of that frame maps to palette index 0.
C1_DegenerateFrameIsZero ==
    /\ (Taken("scaled") /\ Degenerate(sensor_pixels))
          => AllCells(thermal_sensor_data, Zero)
    /\ (Taken("mapped") /\ Degenerate(sensor_pixels))
          => AllCells(thermal_indices, 0)

OffStrideKeptStep ==
    pc \in {"grid", "refresh"} =>
        /\ \A y \in Pixels : \A x \in Pixels :
              ~OnStride(y, x) => output_bitmap'[y][x] = output_bitmap[y][x]
        /\ pc = "refresh" => screen' = output_bitmap

\* C2: from the moment the camera frame has been copied until the buffer is
\* on the screen, no pixel off the stride grid changes: the overlay write
\* changes only pixels (4r, 4c).
C2_OffStrideKept == [][OffStrideKeptStep]_vars

C2_Witness ==
    /\ Taken("refresh")
    /\ screen[BLIT_Y + 1][1] = CameraPixel(camera, 1, 1)
    /\ screen[BLIT_Y][0] # CameraPixel(camera, 0, 0)
    /\ screen[BLIT_Y][0] = thermal_overlay[BLIT_Y \div (REPEAT * REPEAT)][0]

\* C3: when the interpolation step has run, the grid is 15x15; cell
\* (2i, 2j) is the input cell (i, j), cell (2i+1, 2j) the average of input
\* cells (i, j) and (i+1, j), and every odd-column cell (r, 2j+1) the
\* average of its two neighbours (r, 2j) and (r, 2j+2) of the grid.
C3_Interpolation ==
    pc = "mapped" =>
        /\ DOMAIN interpolation_grid = 0 .. (2 * SENSOR_SIZE) - 2
        /\ \A r \in DOMAIN interpolation_grid :
              DOMAIN interpolation_grid[r] = 0 .. (2 * SENSOR_SIZE) - 2
        /\ \A i \in 0 .. SENSOR_SIZE - 1 : \A j \in 0 .. SENSOR_SIZE - 1 :
              interpolation_grid[2 * i][2 * j] = thermal_sensor_data[i][j]
        /\ \A i \in 0 .. SENSOR_SIZE - 2 : \A j \in 0 .. SENSOR_SIZE - 1 :
              interpolation_grid[(2 * i) + 1][2 * j] =
                  Average(thermal_sensor_data[i][j], thermal_sensor_data[i + 1][j])
        /\ \A r \in 0 .. (2 * SENSOR_SIZE) - 2 : \A j \in 0 .. SENSOR_SIZE - 2 :
              interpolation_grid[r][(2 * j) + 1] =
                  Average(interpolation_grid[r][2 * j], interpolation_grid[r][(2 * j) + 2])

C3_Witness ==
    /\ pc = "mapped"
    /\ IsFinite(interpolation_grid[1][1])
    /\ FLess(interpolation_grid[0][0], interpolation_grid[1][1])
    /\ FLess(interpolation_grid[1][1], interpolation_grid[2][2])

ProbeDen == 128
ProbeSpan == 192
ProbeValues == {FDiv(ToFloat(n), ToFloat(ProbeDen)) : n \in -ProbeSpan .. ProbeSpan}

ClampFloor(v) == ClampInt(Floor(FMul(v, ToFloat(THERMAL_COLORS))), 0, THERMAL_COLORS - 1)

\* The mapper on every probe value, on every build.
ProbesAgree ==
    \A v \in ProbeValues : \A build \in Builds :
        /\ ColorIndex(v, build) = ClampFloor(v)
        /\ FEq(v, Zero) => ColorIndex(v, build) = 0
        /\ FLess(v, Zero) => ColorIndex(v, build) = 0
        /\ FLeq(One, v) => ColorIndex(v, build) = THERMAL_COLORS - 1

ColorIndexOfNumbers ==
    /\ ProbesAgree
    /\ pc \in {"blit", "failed"} =>
          \A r \in DOMAIN thermal_indices : \A c \in DOMAIN thermal_indices[r] :
             IsFinite(interpolation_grid[r][c]) =>
                /\ thermal_indices[r][c] = ClampFloor(interpolation_grid[r][c])
                /\ thermal_indices[r][c] + 1 \in DOMAIN thermal_color_lookup
    /\ pc = "failed" =>
          \E r \in DOMAIN interpolation_grid : \E c \in DOMAIN interpolation_grid[r] :
              IsNaN(interpolation_grid[r][c])

\* The lookup of a flat reading, stopped by an index past the palette.
LookupOutOfRange ==
    /\ pc = "failed"
    /\ Degenerate(sensor_pixels)
    /\ IsNaN(interpolation_grid[0][0])
    /\ thermal_indices[0][0] >= Len(thermal_color_lookup)

\* The mapper on a reading whose cells round differently.
ColorIndexOfNumbersSeen ==
    /\ Taken("mapped")
    /\ FLess(interpolation_grid[11][3], FDiv(One, ToFloat(4)))
    /\ thermal_indices[11][3] = (THERMAL_COLORS \div 4) - 1
    /\ interpolation_grid[0][0] = Zero
    /\ thermal_indices[0][0] = 0
    /\ \E r \in DOMAIN thermal_indices : \E c \in DOMAIN thermal_indices[r] :
          /\ interpolation_grid[r][c] = One
          /\ thermal_indices[r][c] = THERMAL_COLORS - 1

RangeScenario(frame) ==
    /\ GridMin(frame) = ToFloat(20)
    /\ GridMax(frame) = ToFloat(30)
    /\ frame[0][0] = GridMin(frame)
    /\ frame[SENSOR_SIZE - 1][SENSOR_SIZE - 1] = GridMax(frame)

\* A reading that never decreases along a row or along a column.
MonotoneFrame(frame) ==
    \A i \in 0 .. SENSOR_SIZE - 1 : \A j \in 0 .. SENSOR_SIZE - 2 :
        /\ FLeq(frame[i][j], frame[i][j + 1])
        /\ FLeq(frame[j][i], frame[j + 1][i])

EndToEnd ==
    /\ thermal_indices[0][0] = 0
    /\ thermal_indices[interpolation_size - 1][interpolation_size - 1] = THERMAL_COLORS - 1
    /\ \A k \in 0 .. interpolation_size - 2 :
          thermal_indices[k][k] <= thermal_indices[k + 1][k + 1]

\* C5: a reading that ranges over 20.0-30.0 with its minimum at [0,0] and
\* its maximum at [7,7] gets index 0 at [0,0] and index 63 at [14,14], and
\* the indices along the main diagonal never decrease.
C5_AnyFrameEndToEnd ==
    (Taken("mapped") /\ RangeScenario(sensor_pixels)) => EndToEnd

\* C5, amended: the same, for a reading that in addition never decreases
\* along a row or a column.
C5_MonotoneFrameEndToEnd ==
    (Taken("mapped") /\ RangeScenario(sensor_pixels) /\ MonotoneFrame(sensor_pixels))
        => EndToEnd

C5_Witness ==
    /\ Taken("mapped")
    /\ RangeScenario(sensor_pixels)
    /\ MonotoneFrame(sensor_pixels)
    /\ thermal_indices[0][0] < thermal_indices[1][1]
    /\ thermal_indices[interpolation_size - 1][interpolation_size - 1] = THERMAL_COLORS - 1

\* t = i / 64 of the palette entry built last, and the region it lies in.
BuiltFraction == FDiv(ToFloat(color - 1), ToFloat(THERMAL_COLORS))
InLow == FLess(BuiltFraction, THERMAL_FADE)
InHigh == FLess(FSub(One, THERMAL_FADE), BuiltFraction)
InMiddle == ~InLow /\ ~InHigh
HueBlue == FDiv(ToFloat(-1), ToFloat(3))
HueYellow == FDiv(ToFloat(1), ToFloat(6))

\* The point at fraction (t - fade) / (1 - 2 fade) of the way from a to b.
HueBetween(a, b) ==
    FAdd(a, FMul(FSub(b, a),
                 FDiv(FSub(BuiltFraction, THERMAL_FADE),
                      FSub(One, FMul(ToFloat(2), THERMAL_FADE)))))

\* Two floats that differ by rounding only: by at most 2^-40.
HueTolerance == Exact(1, <<1>>, -40)
Close(a, b) == FLeq(FAbs(FSub(a, b)), HueTolerance)

LowAndHighRegions ==
    /\ InLow => /\ hue = HueBlue
                /\ saturation = One
                /\ value = FDiv(BuiltFraction, THERMAL_FADE)
    /\ InHigh => /\ hue = HueYellow
                 /\ value = One
                 /\ saturation =
                       FDiv(FSub(THERMAL_FADE, FSub(BuiltFraction, FSub(One, THERMAL_FADE))),
                            THERMAL_FADE)

\* C6, as claimed: in the middle region saturation = value = 1 and the hue
\* runs linearly (to within float rounding) from +1/6 at the low end down
\* to -1/3 at the high end; low region: hue -1/3, value t/fade; high
\* region: hue +1/6, saturation (fade - (t - (1 - fade))) / fade.
C6_HueFallsAcrossMiddle ==
    (pc = "palette" /\ color > 0) =>
        /\ LowAndHighRegions
        /\ InMiddle => /\ saturation = One
                       /\ value = One
                       /\ Close(hue, HueBetween(HueYellow, HueBlue))

\* C6, amended: in the middle region saturation = value = 1 and the hue
\* runs linearly (to within float rounding) from -1/3 at the low end up to
\* +1/6 at the high end, so it never decreases with the index; the low and
\* high regions as claimed.
C6_HueRisesAcrossMiddle ==
    (pc = "palette" /\ color > 0) =>
        /\ LowAndHighRegions
        /\ InMiddle => /\ saturation = One
                       /\ value = One
                       /\ Close(hue, HueBetween(HueBlue, HueYellow))
                       /\ FLeq(HueBlue, hue) /\ FLeq(hue, HueYellow)
                       /\ color > 1 => FLeq(PaletteHSV(color - 2).hue, hue)

C6_Witness ==
    /\ pc = "palette"
    /\ color > 1
    /\ InMiddle
    /\ FLess(Zero, hue)
    /\ FLess(hue, HueYellow)
    /\ FLess(PaletteHSV(color - 2).hue, hue)

StagesInOrder ==
    /\ Len(stamps) <= Len(StageOrder)
    /\ \A i \in 1 .. Len(stamps) : stamps[i] = StageOrder[i]
    /\ pc \notin {"palette", "read", "failed"} => pc = StageOrder[Len(stamps) + 1]
    /\ pc = "failed" => StageOrder[Len(stamps) + 1] = "mapped"
    /\ pc = "read" => (stamps = <<>> \/ stamps = StageOrder)
    /\ pc = "palette" => stamps = <<>>

PresentStep ==
    screen' # screen =>
        /\ pc = "refresh"
        /\ Taken("blit") /\ Taken("grid")
        /\ stamps' = StageOrder
        /\ screen' = output_bitmap

\* C7: the timestamps of an iteration are taken in the order read, scaled,
\* interpolate, mapped, blit, grid, refresh, one statement group at a time;
\* the screen changes only in the refresh step, which follows the camera
\* copy and the overlay write of the same iteration and shows the buffer.
C7_StageOrder == []StagesInOrder /\ [][PresentStep]_vars

C7_Witness ==
    /\ stamps = StageOrder
    /\ pc = "read"
    /\ screen = output_bitmap
    /\ screen[BLIT_Y + 1][1] = CameraPixel(camera, 1, 1)

\* C8: the expanded overlay is the 4x nearest-neighbour repeat of the 15x15
\* overlay, and stride pixel (4r, 4c) of the output is the looked-up colour
\* of index cell (r div 4, c div 4).
C8_NearestNeighbourRepeat ==
    Taken("grid") =>
        \A r \in 0 .. repeated_size - 1 : \A c \in 0 .. repeated_size - 1 :
            /\ thermal_overlay_repeated[r][c] = thermal_overlay[r \div 4][c \div 4]
            /\ output_bitmap[4 * r][4 * c] =
                  thermal_color_lookup[thermal_indices[r \div 4][c \div 4] + 1]
            /\ Taken("refresh") => screen[4 * r][4 * c] = output_bitmap[4 * r][4 * c]

\* An overlay that is not symmetric, on the screen.
C8_Witness ==
    /\ Taken("refresh")
    /\ thermal_overlay[6][8] # thermal_overlay[8][6]
    /\ thermal_overlay_repeated[27][32] = thermal_overlay[6][8]
    /\ screen[27 * REPEAT][32 * REPEAT] = thermal_overlay[6][8]
    /\ screen[32 * REPEAT][27 * REPEAT] = thermal_overlay[8][6]

SwappedRGB565(c) ==
    LET r == (c \div 65536) % 256
        g == (c \div 256) % 256
        b == c % 256
        rgb565 == ((r \div 8) * 2048) + ((g \div 4) * 32) + (b \div 8)
    IN  ((rgb565 % 256) * 256) + (rgb565 \div 256)

\* C9: the stored lookup value is the byte-swapped RGB565 encoding of the
\* entry's 24-bit colour and fits in 16 bits.
C9_LookupIsSwappedRGB565 ==
    (pc = "palette" /\ color > 0) =>
        /\ thermal_color_lookup[color] = SwappedRGB565(rgb)
        /\ thermal_color_lookup[color] \in 0 .. 65535

FreshGrid(frame) ==
    InterpolateInto(Full(interpolation_size, interpolation_size, Zero), Normalize(frame))

FreshRepeated(grid, build, lookup) ==
    ExpandInto(Full(repeated_size, repeated_size, 0),
               MapColors(MapIndices(grid, build), lookup))

FreshOutput(rep, k) == BulkTransfer(Blit(Full(DISPLAY_SIZE, DISPLAY_SIZE, 0), k), rep)

\* C10: once an iteration has composed its frame, the pre-allocated
\* buffers hold what the first iteration of a fresh run would compute from
\* the same reading and the same camera frame, whatever the frames before.
C10_NoStaleData ==
    Taken("grid") =>
        \E build \in Builds :
            LET grid == FreshGrid(sensor_pixels)
                rep == FreshRepeated(grid, build, thermal_color_lookup)
                out == FreshOutput(rep, camera)
            IN  /\ interpolation_grid = grid
                /\ InRange(MapIndices(grid, build), thermal_color_lookup)
                /\ thermal_overlay_repeated = rep
                /\ output_bitmap = out
                /\ Taken("refresh") => screen = out

\* An earlier frame, different in both inputs, was composed in the same
\* buffers and is still on the screen.
C10_Witness ==
    /\ Taken("grid")
    /\ ~Taken("refresh")
    /\ screen # Unset
    /\ screen[0][0] # output_bitmap[0][0]
    /\ screen[BLIT_Y][1] # output_bitmap[BLIT_Y][1]

====
